---------------------------- MODULE Spec2Model ----------------------------
(***************************************************************************)
(* A model of use-phone-skill: the coordinate mapper, the screen-info      *)
(* resolver and the device-size query of scripts/phone_view.py, and the    *)
(* auto-view orchestration of scripts/phone_control.py.                    *)
(*                                                                         *)
(* Four specifications share the module's variables:                       *)
(*   SpecMapper   - the pure coordinate functions applied to drawn inputs  *)
(*   SpecResolver - get_accurate_screen_info, one device command per step  *)
(*   SpecControl  - one invocation of phone_control.py main                *)
(*   SpecExtract  - parse_relative_coordinates_from_text, line by line     *)
(***************************************************************************)
EXTENDS Integers, Sequences, FiniteSets, TLC

VARIABLES
    \* ---- coordinate mapper (SpecMapper) ----
    mpc,        \* position of the mapper run
    args,       \* [x, y, width, height]: the arguments of the call
    abs_out,    \* result of convert_relative_to_absolute, <<abs_x, abs_y>>
    rel_out,    \* result of convert_absolute_to_relative on abs_out
    valid_out,  \* result of validate_coordinates on args
    valid_out2, \* result of validate_coordinates on valid_out's coordinates
    \* ---- screen-info resolver (SpecResolver) ----
    rpc,        \* position inside get_accurate_screen_info and its callees
    env,        \* [shot, pil]: the screenshot argument and PIL_AVAILABLE
    locals,     \* [width, height, via]: the size the resolver holds
    issued,     \* the device commands issued so far with what each gave
    info,       \* the ScreenInfo dict returned, or NoInfo
    \* ---- phone_control.py main (SpecControl) ----
    cpc,        \* position inside main / execute_with_auto_view
    cargs,      \* the parsed command line
    result,     \* the CmdResult of the device action
    clock,      \* half-seconds elapsed since start_time
    trace,      \* the externally visible steps taken, in order
    sent,       \* the coordinate pairs handed to the device action
    screen_infos, \* the screen_info each pair was converted with
    budget,     \* the timeout handed to _auto_view_screen, in seconds
    auto_view_desc, \* what _auto_view_screen returned and printed
    exit_code,  \* exit status of the invocation, or NoExit
    \* ---- narrative extractor (SpecExtract) ----
    epc,        \* position inside parse_relative_coordinates_from_text
    parse_info, \* its screen_info argument
    narrative,  \* the lines of its description argument scanned so far
    elements,   \* its list of finished elements
    current_element, \* its accumulator: <<>> for {}, else <<the dict>>
    \* ---- phone_view.py main (SpecDescribe) ----
    vpc,        \* position inside main of phone_view.py
    vargs,      \* the parsed command line
    view_info,  \* main's screen_info: NoInfo for None
    response,   \* what the vision endpoint did, "unset" before the call
    desc,       \* what describe_screenshot returned
    printed,    \* what main wrote to standard output
    view_exit   \* exit status of the invocation, or NoExit

mvars == <<mpc, args, abs_out, rel_out, valid_out, valid_out2>>
rvars == <<rpc, env, locals, issued, info>>
cvars == <<cpc, cargs, result, clock, trace, sent, screen_infos, budget,
          auto_view_desc,
          exit_code>>
evars == <<epc, parse_info, narrative, elements, current_element>>
vvars == <<vpc, vargs, view_info, response, desc, printed, view_exit>>
vars == <<mvars, rvars, cvars, evars, vvars>>

\* What the variables of the parts a specification does not run are held at.
IdleArgs == [x |-> 0, y |-> 0, width |-> 1, height |-> 1]
IdleEnv == [shot |-> [state |-> "none", size |-> <<0, 0>>], pil |-> TRUE]
IdleCommandLine ==
    [cmd |-> "devices", json |-> FALSE, auto_view |-> TRUE, wait |-> 3,
     timeout |-> 30, relative |-> FALSE, available |-> TRUE, points |-> <<>>,
     noargs |-> FALSE]

\* No exit status yet, no CmdResult yet, _auto_view_screen not called.
NoExit == 0 - 1
NoResult == [state |-> "none", ok |-> FALSE, returncode |-> 0 - 1]
NoDesc == [kind |-> "unset", ok |-> FALSE, empty |-> TRUE,
           timeout_error |-> FALSE, suggested_timeout |-> 0,
           stderr_suggest |-> 0]
IdleViewArgs == [cmd |-> "capture", json |-> FALSE, with_coords |-> TRUE,
                 coords_format |-> "text", save_coords |-> FALSE]
NoDescription == [kind |-> "unset", lines |-> <<>>]
NothingPrinted == [path |-> FALSE, description |-> "none", elements |-> <<>>]

Max(a, b) == IF a >= b THEN a ELSE b
Min(a, b) == IF a <= b THEN a ELSE b

(***************************************************************************)
(* IEEE-754 double arithmetic of the two conversions, in integers.         *)
(***************************************************************************)
RECURSIVE Pow2(_)
Pow2(k) == IF k = 0 THEN 1 ELSE 2 * Pow2(k - 1)

RECURSIVE Pow2Mod125(_)
Pow2Mod125(k) == IF k = 0 THEN 1 ELSE (2 * Pow2Mod125(k - 1)) % 125

\* The binade of r / 1000 for 1 <= r <= 999: the least j >= 1 with
\* r * 2^j >= 1000, so that r / 1000 lies in [2^-j, 2^(1-j)).
RECURSIVE BinadeFrom(_, _)
BinadeFrom(r, j) == IF r * Pow2(j) >= 1000 THEN j ELSE BinadeFrom(r, j + 1)
Binade(r) == BinadeFrom(r, 1)

\* floor(log2 n) for n >= 1.
RECURSIVE ILog2From(_, _)
ILog2From(n, e) == IF Pow2(e + 1) <= n THEN ILog2From(n, e + 1) ELSE e
ILog2(n) == ILog2From(n, 0)

\* The rounding error of the double quotient r / 1000.  Its 53-bit
\* significand is m = round(r * 2^k / 1000) with k = 52 + Binade(r), and
\* QuotErr(r) = 125 * m - r * 2^(k-3): negative when the quotient was rounded
\* down, positive when it was rounded up, 0 when r / 1000 is a double.
\* (125 is odd, so the rounding is never a tie.)
QuotErr(r) ==
    LET t == ((r % 125) * Pow2Mod125(49 + Binade(r))) % 125
    IN  IF t <= 62 THEN 0 - t ELSE 125 - t

\* int(r / 1000 * dim) as Python computes it in doubles, 0 <= r <= 999,
\* dim >= 1.  The exact product is n + QuotErr(r) * dim / (125 * 2^k) with
\* n = r * dim / 1000.  Unless n is an integer the rounded product keeps its
\* floor; when n is an integer and the quotient was rounded down, the product
\* rounds back to n only if it lies within half the gap to the double below n
\* (2^(E-53) for 2^E < n < 2^(E+1), 2^(E-54) for n = 2^E), else int() gives
\* n - 1.
FloatMulFloor(r, dim) ==
    IF r = 0 \/ (r * dim) % 1000 # 0 THEN (r * dim) \div 1000
    ELSE LET n == (r * dim) \div 1000
             e == QuotErr(r)
             lim == 125 * Pow2(Binade(r) + ILog2(n) - 1)
             dev == IF n = Pow2(ILog2(n)) THEN 2 * (0 - e) * dim
                    ELSE (0 - e) * dim
         IN  IF e >= 0 \/ dev <= lim THEN n ELSE n - 1

\* int(a * 1000 / dim) in doubles, a >= 0, dim >= 1: a * 1000 is exact, the
\* division is correctly rounded, and a non-integer quotient is at least
\* 1/dim away from an integer, so the result is the exact floor.
FloatDivFloor(a, dim) == (a * 1000) \div dim

(***************************************************************************)
(* CoordinateMapper: phone_view.py, the three pure functions.              *)
(***************************************************************************)
RelClampMut1000(v) == Max(0, Min(1000, v))

\* max(0, min(999, rel)): the boundary check of convert_relative_to_absolute.
RelClamp(v) == Max(0, Min(999, v))

convert_relative_to_absolute(rel_x, rel_y, screen_width, screen_height) ==
    <<FloatMulFloor(RelClamp(rel_x), screen_width),
      FloatMulFloor(RelClamp(rel_y), screen_height)>>

RelAxisMut999(a, dim) == (Max(0, Min(dim - 1, a)) * 999) \div dim

\* One axis of convert_absolute_to_relative: clamp to [0, dim-1], then
\* int(a * 1000 / dim).
RelAxis(a, dim) == FloatDivFloor(Max(0, Min(dim - 1, a)), dim)

convert_absolute_to_relative(abs_x, abs_y, screen_width, screen_height) ==
    <<RelAxis(abs_x, screen_width), RelAxis(abs_y, screen_height)>>

ValidAxisMutDim(v, dim) == Max(0, Min(dim, v))

\* max(0, min(dim - 1, v)): the hard clamp of validate_coordinates.
ValidAxis(v, dim) == Max(0, Min(dim - 1, v))

\* The soft-margin advisories of validate_coordinates, computed on the
\* ORIGINAL x, y.  screen_width * 0.05 and screen_height * 0.1 are doubles;
\* against an integer coordinate the comparisons decide as the exact
\* 20 * x < width, 20 * x > 19 * width, 10 * y < height, 10 * y > 9 * height
\* (the doubles 0.05 and 0.1 exceed 1/20 and 1/10 by a relative 2^-54, less
\* than half a gap, so dim * 0.05 is exact whenever dim / 20 is an integer).
validate_warnings(x, y, screen_width, screen_height) ==
    (IF 20 * x < screen_width \/ 20 * x > 19 * screen_width
        THEN {"edge_x"} ELSE {})
    \cup (IF 10 * y < screen_height THEN {"status_bar"} ELSE {})
    \cup (IF 10 * y > 9 * screen_height THEN {"nav_bar"} ELSE {})

WasCorrectedMutWarn(x, y, screen_width, screen_height) ==
    \/ x # ValidAxis(x, screen_width)
    \/ y # ValidAxis(y, screen_height)
    \/ validate_warnings(x, y, screen_width, screen_height) # {}

\* was_corrected = (original_x != valid_x or original_y != valid_y)
WasCorrected(x, y, screen_width, screen_height) ==
    x # ValidAxis(x, screen_width) \/ y # ValidAxis(y, screen_height)

\* The returned triple (valid_x, valid_y, was_corrected).
validate_coordinates(x, y, screen_width, screen_height) ==
    <<ValidAxis(x, screen_width), ValidAxis(y, screen_height),
      WasCorrected(x, y, screen_width, screen_height)>>

(***************************************************************************)
(* Device commands: phone_view.py _run and the text it returns.            *)
(*                                                                         *)
(* The standard output of a command is a sequence of lines.  A line is     *)
(* [k, a, b]: k names the pattern the line carries and a, b are the        *)
(* numbers (\d+, so never negative) in its two groups:                     *)
(*   "Physical size"       Physical size: <a>x<b>                          *)
(*   "init"                init=<a>x<b>                                    *)
(*   "mUnrestrictedScreen" mUnrestrictedScreen=(<a>,<b>)                   *)
(*   "Physical density"    Physical density: <a>                           *)
(*   "other"               a line no pattern of the program matches        *)
(***************************************************************************)
MaxLines == 1

DefaultWidth == 1080
DefaultHeight == 2400
DefaultDensity == 420

SizePairs == {<<DefaultWidth, DefaultHeight>>, <<720, DefaultHeight>>,
              <<0, 1280>>, <<720, 0>>}
Densities == {0, 320}

Lines ==
    {[k |-> key, a |-> p[1], b |-> p[2]] :
        key \in {"Physical size", "init", "mUnrestrictedScreen"},
        p \in SizePairs}
    \cup {[k |-> "Physical density", a |-> d, b |-> 0] : d \in Densities}
    \cup {[k |-> "other", a |-> 0, b |-> 0]}

Stdouts == UNION {[1..n -> Lines] : n \in 0..MaxLines}

NoMatch == <<>>

\* re.search(pattern, text): the groups of the first line carrying the
\* pattern, or NoMatch.
re_search(key, text) ==
    LET hits == {i \in 1..Len(text) : text[i].k = key}
    IN  IF hits = {} THEN NoMatch
        ELSE LET i == CHOOSE i \in hits : \A j \in hits : i <= j
             IN  <<text[i].a, text[i].b>>

\* What running a command can do: exit (with any status and any text), run
\* into the timeout (any partial text), or not be launchable at all
\* (subprocess.run raises FileNotFoundError / OSError).
RunKinds == {"exit0", "exit1", "timeout", "unlaunchable"}
RunOutcomes == [kind : RunKinds \ {"unlaunchable"}, out : Stdouts]
               \cup {[kind |-> "unlaunchable", out |-> <<>>]}

Raised == [raised |-> TRUE]

\* _run: a CmdResult, with ok = (returncode == 0); TimeoutExpired becomes a
\* CmdResult with ok = False and returncode 124; any other exception of
\* subprocess.run is not caught and propagates (Raised).
_run(o) ==
    CASE o.kind = "exit0" ->
            [raised |-> FALSE, ok |-> TRUE, stdout |-> o.out, returncode |-> 0]
      [] o.kind = "exit1" ->
            [raised |-> FALSE, ok |-> FALSE, stdout |-> o.out, returncode |-> 1]
      [] o.kind = "timeout" ->
            [raised |-> FALSE, ok |-> FALSE, stdout |-> o.out, returncode |-> 124]
      [] OTHER -> Raised

\* parse_display_info: the init=WxH groups, else (1080, 2400).
parse_display_info(dumpsys_output) ==
    LET match == re_search("init", dumpsys_output)
    IN  IF match # NoMatch THEN match ELSE <<DefaultWidth, DefaultHeight>>

\* get_screen_density_via_adb after its _run returned density_res.
DensityOf(density_res) ==
    IF density_res.ok /\ re_search("Physical density", density_res.stdout) # NoMatch
    THEN re_search("Physical density", density_res.stdout)[1]
    ELSE DefaultDensity

(***************************************************************************)
(* ScreenInfoResolver: phone_view.py get_accurate_screen_info,             *)
(* get_screen_size_via_adb and get_screen_density_via_adb, one device      *)
(* command per step.                                                       *)
(***************************************************************************)
ShotSizes == {<<1440, 3200>>}
Shots == {[state |-> st, size |-> <<0, 0>>] :
             st \in {"none", "missing", "undecodable"}}
         \cup {[state |-> "decodable", size |-> z] : z \in ShotSizes}

NoInfo == [width |-> 0, height |-> 0, density |-> 0,
           aspect_ratio |-> <<0, 0>>, source |-> "none"]

\* The dict of the last return of get_accurate_screen_info.
DefaultInfo == [width |-> DefaultWidth, height |-> DefaultHeight,
                density |-> DefaultDensity,
                aspect_ratio |-> <<DefaultWidth, DefaultHeight>>,
                source |-> "default"]

\* The dict built from width, height and density; aspect_ratio is the
\* quotient width / height, kept as the pair <<width, height>>.
MakeInfo(width, height, density, source) ==
    [width |-> width, height |-> height, density |-> density,
     aspect_ratio |-> <<width, height>>, source |-> source]

NoLocals == [width |-> 0, height |-> 0, via |-> "none"]

\* What is recorded of a command: its name, whether launching it raised,
\* its ok flag, and what re.search of the pattern the caller applies to its
\* standard output found.
Fact(cmd, key, r) ==
    IF r.raised
    THEN [cmd |-> cmd, raised |-> TRUE, ok |-> FALSE, found |-> NoMatch]
    ELSE [cmd |-> cmd, raised |-> FALSE, ok |-> r.ok,
          found |-> re_search(key, r.stdout)]

\* Method 1 is taken when a path was given, the file exists and PIL was
\* imported.
UsesScreenshot(e) ==
    e.shot.state \notin {"none", "missing"} /\ e.pil

R_Start ==
    /\ rpc = "start"
    /\ IF UsesScreenshot(env) /\ env.shot.state = "decodable"
       THEN /\ locals' = [width |-> env.shot.size[1],
                          height |-> env.shot.size[2], via |-> "screenshot"]
            /\ rpc' = "m1_density"
       ELSE \* no usable screenshot, or Image.open raised and was caught
            /\ locals' = locals
            /\ rpc' = "m2_wm_size"
    /\ UNCHANGED <<env, issued, info, mvars, cvars, evars, vvars>>

\* Method 1: the density query after the screenshot gave the size.  Anything
\* raised inside the try block (an unlaunchable adb, a division by zero) is
\* caught by `except Exception` and the function goes on to method 2.
R_M1Density ==
    /\ rpc = "m1_density"
    /\ \E o \in RunOutcomes :
         LET r == _run(o) IN
         /\ issued' = Append(issued, Fact("wm density", "Physical density", r))
         /\ IF r.raised \/ locals.height = 0
            THEN /\ rpc' = "m2_wm_size"
                 /\ info' = info
            ELSE /\ rpc' = "done"
                 /\ info' = MakeInfo(locals.width, locals.height,
                                     DensityOf(r), "screenshot")
    /\ UNCHANGED <<env, locals, mvars, cvars, evars, vvars>>

\* get_screen_size_via_adb, method 1: wm size.
R_WmSize ==
    /\ rpc = "m2_wm_size"
    /\ \E o \in RunOutcomes :
         LET r == _run(o)
             match == re_search("Physical size", r.stdout)
         IN
         /\ issued' = Append(issued, Fact("wm size", "Physical size", r))
         /\ IF r.raised
            THEN /\ rpc' = "done"
                 /\ info' = DefaultInfo
                 /\ locals' = locals
            ELSE IF r.ok /\ match # NoMatch
            THEN /\ rpc' = "m2_density"
                 /\ locals' = [width |-> match[1], height |-> match[2],
                               via |-> "wm size"]
                 /\ info' = info
            ELSE /\ rpc' = "m2_displays"
                 /\ UNCHANGED <<locals, info>>
    /\ UNCHANGED <<env, mvars, cvars, evars, vvars>>

IsRealDisplayMutAnd(width, height) ==
    width # DefaultWidth /\ height # DefaultHeight

\* if width != 1080 or height != 2400: the parse is taken as successful.
IsRealDisplay(width, height) ==
    width # DefaultWidth \/ height # DefaultHeight

\* get_screen_size_via_adb, method 2: dumpsys window displays.
R_Displays ==
    /\ rpc = "m2_displays"
    /\ \E o \in RunOutcomes :
         LET r == _run(o) IN
         /\ issued' = Append(issued, Fact("dumpsys window displays", "init", r))
         /\ IF r.raised
            THEN /\ rpc' = "done"
                 /\ info' = DefaultInfo
                 /\ locals' = locals
            ELSE LET wh == parse_display_info(r.stdout) IN
                 IF IsRealDisplay(wh[1], wh[2])
                 THEN /\ rpc' = "m2_density"
                      /\ locals' = [width |-> wh[1], height |-> wh[2],
                                    via |-> "displays"]
                      /\ info' = info
                 ELSE /\ rpc' = "m2_window"
                      /\ UNCHANGED <<locals, info>>
    /\ UNCHANGED <<env, mvars, cvars, evars, vvars>>

\* get_screen_size_via_adb, method 3: dumpsys window, else (1080, 2400).
R_Window ==
    /\ rpc = "m2_window"
    /\ \E o \in RunOutcomes :
         LET r == _run(o)
             match == re_search("mUnrestrictedScreen", r.stdout)
         IN
         /\ issued' = Append(issued,
                             Fact("dumpsys window", "mUnrestrictedScreen", r))
         /\ IF r.raised
            THEN /\ rpc' = "done"
                 /\ info' = DefaultInfo
                 /\ locals' = locals
            ELSE /\ rpc' = "m2_density"
                 /\ info' = info
                 /\ locals' = IF match # NoMatch
                              THEN [width |-> match[1], height |-> match[2],
                                    via |-> "window"]
                              ELSE [width |-> DefaultWidth,
                                    height |-> DefaultHeight,
                                    via |-> "fallback"]
    /\ UNCHANGED <<env, mvars, cvars, evars, vvars>>

\* Method 2 of get_accurate_screen_info after the size: the density query
\* and the dict; whatever is raised (an unlaunchable adb, width / height
\* with height 0) gives the default dict.
R_M2Density ==
    /\ rpc = "m2_density"
    /\ \E o \in RunOutcomes :
         LET r == _run(o) IN
         /\ issued' = Append(issued, Fact("wm density", "Physical density", r))
         /\ rpc' = "done"
         /\ info' = IF r.raised \/ locals.height = 0
                    THEN DefaultInfo
                    ELSE MakeInfo(locals.width, locals.height,
                                  DensityOf(r), "adb")
    /\ UNCHANGED <<env, locals, mvars, cvars, evars, vvars>>

(***************************************************************************)
(* SpecMapper: the pure functions applied to drawn arguments.              *)
(***************************************************************************)
MaxOver == 2
MaxSmall == 3

\* Screen sizes: tiny ones, ones below 1000 pixels, and phone sizes.
MapperSizes ==
    {<<k, k + 1>> : k \in 1..MaxSmall}
    \cup {<<100, 200>>, <<720, 1280>>, <<1000, 1000>>,
          <<DefaultWidth, DefaultHeight>>, <<1440, 3200>>}

\* One coordinate runs over the whole relative range, a little beyond it and
\* around the screen's edges; the other is one of a few samples.
FullInputs(s) ==
    ((0 - MaxOver)..(999 + MaxOver))
    \cup {s[1] - 1, s[1], s[1] + 1, s[2] - 1, s[2], s[2] + 1}
SampleInputs == {0 - 1, 0, 500, 999}

MapperInit ==
    /\ mpc = "args"
    /\ \E s \in MapperSizes :
         \E full \in FullInputs(s), smp \in SampleInputs, swap \in BOOLEAN :
           args = [x |-> IF swap THEN smp ELSE full,
                   y |-> IF swap THEN full ELSE smp,
                   width |-> s[1], height |-> s[2]]
    /\ abs_out = <<0, 0>>
    /\ rel_out = <<0, 0>>
    /\ valid_out = <<0, 0, FALSE>>
    /\ valid_out2 = <<0, 0, FALSE>>
    /\ rpc = "idle"
    /\ env = IdleEnv
    /\ locals = NoLocals
    /\ issued = <<>>
    /\ info = NoInfo
    /\ cpc = "idle"
    /\ cargs = IdleCommandLine
    /\ result = NoResult
    /\ clock = 0
    /\ trace = <<>>
    /\ sent = <<>>
    /\ screen_infos = <<>>
    /\ budget = 0
    /\ auto_view_desc = NoDesc
    /\ exit_code = NoExit
    /\ epc = "idle"
    /\ parse_info = NoInfo
    /\ narrative = <<>>
    /\ elements = <<>>
    /\ current_element = <<>>
    /\ vpc = "idle"
    /\ vargs = IdleViewArgs
    /\ view_info = NoInfo
    /\ response = "unset"
    /\ desc = NoDescription
    /\ printed = NothingPrinted
    /\ view_exit = NoExit

M_RelToAbs ==
    /\ mpc = "args"
    /\ abs_out' = convert_relative_to_absolute(args.x, args.y,
                                               args.width, args.height)
    /\ mpc' = "abs"
    /\ UNCHANGED <<args, rel_out, valid_out, valid_out2, rvars, cvars,
                   evars, vvars>>

\* The round trip: the absolute pair is converted back.
M_AbsToRel ==
    /\ mpc = "abs"
    /\ rel_out' = convert_absolute_to_relative(abs_out[1], abs_out[2],
                                               args.width, args.height)
    /\ mpc' = "rel"
    /\ UNCHANGED <<args, abs_out, valid_out, valid_out2, rvars, cvars,
                   evars, vvars>>

M_Validate ==
    /\ mpc = "args"
    /\ valid_out' = validate_coordinates(args.x, args.y,
                                         args.width, args.height)
    /\ mpc' = "valid"
    /\ UNCHANGED <<args, abs_out, rel_out, valid_out2, rvars, cvars,
                   evars, vvars>>

\* validate_coordinates applied to the coordinates it returned.
M_Revalidate ==
    /\ mpc = "valid"
    /\ valid_out2' = validate_coordinates(valid_out[1], valid_out[2],
                                          args.width, args.height)
    /\ mpc' = "valid2"
    /\ UNCHANGED <<args, abs_out, rel_out, valid_out, rvars, cvars,
                   evars, vvars>>

MapperNext == M_RelToAbs \/ M_AbsToRel \/ M_Validate \/ M_Revalidate

(***************************************************************************)
(* SpecResolver: one call of get_accurate_screen_info.                     *)
(***************************************************************************)
ResolverInit ==
    /\ mpc = "idle"
    /\ args = IdleArgs
    /\ abs_out = <<0, 0>>
    /\ rel_out = <<0, 0>>
    /\ valid_out = <<0, 0, FALSE>>
    /\ valid_out2 = <<0, 0, FALSE>>
    /\ rpc = "start"
    /\ env \in [shot : Shots, pil : BOOLEAN]
    /\ locals = NoLocals
    /\ issued = <<>>
    /\ info = NoInfo
    /\ cpc = "idle"
    /\ cargs = IdleCommandLine
    /\ result = NoResult
    /\ clock = 0
    /\ trace = <<>>
    /\ sent = <<>>
    /\ screen_infos = <<>>
    /\ budget = 0
    /\ auto_view_desc = NoDesc
    /\ exit_code = NoExit
    /\ epc = "idle"
    /\ parse_info = NoInfo
    /\ narrative = <<>>
    /\ elements = <<>>
    /\ current_element = <<>>
    /\ vpc = "idle"
    /\ vargs = IdleViewArgs
    /\ view_info = NoInfo
    /\ response = "unset"
    /\ desc = NoDescription
    /\ printed = NothingPrinted
    /\ view_exit = NoExit

ResolverNext ==
    R_Start \/ R_M1Density \/ R_WmSize \/ R_Displays \/ R_Window \/ R_M2Density

(***************************************************************************)
(* phone_control.py: main, convert_coordinates_if_needed,                  *)
(* execute_with_auto_view, _auto_view_screen and _print_result.            *)
(* Time is counted in half-seconds (the default --wait is 1.5 s).          *)
(***************************************************************************)
TicksPerSecond == 2

Commands == {"connect", "devices", "tap", "swipe", "key", "text", "app",
             "stop", "shell"}

\* auto_view_commands of execute_with_auto_view.
auto_view_commands == {"tap", "swipe", "key", "text", "app"}

\* The commands main hands to execute_with_auto_view.
Orchestrated == {"tap", "swipe", "key", "text", "app"}

\* --wait in half-seconds: negative, none, the default 1.5 s, above 60 s.
Waits == {0 - 1, 0, 3, 60 * TicksPerSecond + 1}
\* --timeout in seconds.
Timeouts == {5, 30}
\* Coordinate pairs on the command line.
Points == {<<0 - 5, 500>>, <<500, 5000>>, <<999, 0>>}
\* What get_accurate_screen_info may hand to convert_coordinates_if_needed.
ControlInfos == {DefaultInfo, MakeInfo(720, 1280, 320, "adb"),
                 MakeInfo(0, 1280, DefaultDensity, "adb")}

\* How long the device action ran, in half-seconds, when it did not time out.
Durations(timeout) == {0, 3, timeout * TicksPerSecond - 1}

\* What the device action can do.  AdbClient.run turns an exit into a
\* CmdResult with ok = (returncode == 0) and a TimeoutExpired into one with
\* returncode 124; anything else subprocess.run raises is not caught.
\* app_start / app_stop return a CmdResult with returncode 2 without running
\* anything when the name has no dot and no alias.
ActionKinds(cmd) ==
    {"exit0", "exit1", "timeout", "unlaunchable"}
    \cup (IF cmd \in {"app", "stop"} THEN {"unknown_app"} ELSE {})

AdbClient_run(kind) ==
    CASE kind = "exit0" -> [state |-> "returned", ok |-> TRUE, returncode |-> 0]
      [] kind = "exit1" -> [state |-> "returned", ok |-> FALSE, returncode |-> 1]
      [] kind = "timeout" ->
            [state |-> "returned", ok |-> FALSE, returncode |-> 124]
      [] kind = "unknown_app" ->
            [state |-> "returned", ok |-> FALSE, returncode |-> 2]
      [] OTHER -> [state |-> "raised", ok |-> FALSE, returncode |-> 0 - 1]

\* convert_coordinates_if_needed(x, y) for the screen_info the resolver gave.
\* get_accurate_screen_info catches every Exception itself and the mapper
\* functions raise none, so the two `except Exception` arms are never taken.
convert_coordinates_if_needed(x, y, relative, available, screen_info) ==
    IF ~relative
    THEN IF available
         THEN LET v == validate_coordinates(x, y, screen_info.width,
                                            screen_info.height)
              IN  <<v[1], v[2]>>
         ELSE <<x, y>>
    ELSE IF ~available THEN <<x, y>>
    ELSE LET cx == IF x < 0 \/ x > 999 \/ y < 0 \/ y > 999
                   THEN Max(0, Min(999, x)) ELSE x
             cy == IF x < 0 \/ x > 999 \/ y < 0 \/ y > 999
                   THEN Max(0, Min(999, y)) ELSE y
             a == convert_relative_to_absolute(cx, cy, screen_info.width,
                                               screen_info.height)
             v == validate_coordinates(a[1], a[2], screen_info.width,
                                       screen_info.height)
         IN  <<v[1], v[2]>>

RemainingTimeoutMutWait(timeout, elapsed) ==
    IF (timeout * TicksPerSecond - elapsed - cargs.wait) <= 10 * TicksPerSecond
    THEN 10
    ELSE (timeout * TicksPerSecond - elapsed - cargs.wait) \div TicksPerSecond

\* remaining_timeout = max(10, args.timeout - elapsed_time), handed on as
\* int(remaining_timeout); elapsed is in half-seconds.
RemainingTimeout(timeout, elapsed) ==
    IF (timeout * TicksPerSecond - elapsed) <= 10 * TicksPerSecond
    THEN 10
    ELSE (timeout * TicksPerSecond - elapsed) \div TicksPerSecond

\* What the observer subprocess can do.
\* "exit0_notobject": exit 0 with JSON text that is not an object, so that
\* view_data.get raises AttributeError inside the try block.
ObserveKinds == {"exit0", "exit0_blank", "exit0_notjson", "exit0_notobject",
                 "fail_timeout_text", "fail_other_text", "TimeoutExpired",
                 "FileNotFoundError", "Exception"}

\* _auto_view_screen(adb, device, timeout, as_json) for one behaviour of the
\* subprocess.  kind is what is returned: "None", "str" (text mode, the
\* stripped standard output) or "dict" (json mode).  suggested_timeout is 0
\* for None / absent; stderr_suggest is the --timeout value of the hint
\* printed to stderr in text mode (0: no hint).
_auto_view_screen(timeout, as_json, kind) ==
    LET base == [kind |-> "None", ok |-> FALSE, empty |-> TRUE,
                 timeout_error |-> FALSE, suggested_timeout |-> 0,
                 stderr_suggest |-> 0]
    IN
    CASE kind \in {"exit0", "exit0_blank", "exit0_notjson"}
         \/ (kind = "exit0_notobject" /\ ~as_json) ->
            IF as_json
            THEN [base EXCEPT !.kind = "dict", !.ok = TRUE,
                              !.empty = (kind = "exit0_blank")]
            ELSE [base EXCEPT !.kind = "str", !.ok = TRUE,
                              !.empty = (kind = "exit0_blank")]
      [] kind \in {"fail_timeout_text", "fail_other_text"} ->
            LET timeout_error == (kind = "fail_timeout_text") IN
            IF as_json
            THEN [base EXCEPT !.kind = "dict",
                              !.timeout_error = timeout_error,
                              !.suggested_timeout =
                                  IF timeout_error THEN timeout * 2 ELSE 0]
            ELSE [base EXCEPT !.stderr_suggest =
                                  IF timeout_error THEN timeout * 2 ELSE 0]
      [] kind = "TimeoutExpired" ->
            IF as_json
            THEN [base EXCEPT !.kind = "dict", !.timeout_error = TRUE,
                              !.suggested_timeout = timeout * 2]
            ELSE [base EXCEPT !.stderr_suggest = timeout * 2]
      [] OTHER ->
            IF as_json THEN [base EXCEPT !.kind = "dict"] ELSE base

\* The parsed command lines: tap takes one point, swipe two; --relative
\* exists for tap and swipe only; `available` is
\* COORDINATE_CONVERSION_AVAILABLE; noargs: shell was given no command.
PointsOf(cmd) ==
    CASE cmd = "tap" -> {<<p>> : p \in Points}
      [] cmd = "swipe" -> {<<p, q>> : p \in Points, q \in Points}
      [] OTHER -> {<<>>}

CommandLines ==
    {[cmd |-> c, json |-> j, auto_view |-> av, wait |-> w, timeout |-> t,
      relative |-> r, available |-> a, points |-> ps, noargs |-> n] :
        c \in Commands, j \in BOOLEAN, av \in BOOLEAN, w \in Waits,
        t \in Timeouts, r \in BOOLEAN, a \in BOOLEAN,
        ps \in UNION {PointsOf(c2) : c2 \in Commands}, n \in BOOLEAN}

WellFormed(cl) ==
    /\ cl.points \in PointsOf(cl.cmd)
    /\ cl.relative => cl.cmd \in {"tap", "swipe"}
    /\ cl.noargs => cl.cmd = "shell"

ControlInit ==
    /\ mpc = "idle"
    /\ args = IdleArgs
    /\ abs_out = <<0, 0>>
    /\ rel_out = <<0, 0>>
    /\ valid_out = <<0, 0, FALSE>>
    /\ valid_out2 = <<0, 0, FALSE>>
    /\ rpc = "idle"
    /\ env = IdleEnv
    /\ locals = NoLocals
    /\ issued = <<>>
    /\ info = NoInfo
    /\ cpc = "start"
    /\ cargs \in {cl \in CommandLines : WellFormed(cl)}
    /\ result = NoResult
    /\ clock = 0
    /\ trace = <<>>
    /\ sent = <<>>
    /\ screen_infos = <<>>
    /\ budget = 0
    /\ auto_view_desc = NoDesc
    /\ exit_code = NoExit
    /\ epc = "idle"
    /\ parse_info = NoInfo
    /\ narrative = <<>>
    /\ elements = <<>>
    /\ current_element = <<>>
    /\ vpc = "idle"
    /\ vargs = IdleViewArgs
    /\ view_info = NoInfo
    /\ response = "unset"
    /\ desc = NoDescription
    /\ printed = NothingPrinted
    /\ view_exit = NoExit

\* The checks of main that end the invocation before anything is run:
\* the status main returns, or NoExit when the command line passes.
Rejection(cl) ==
    IF cl.wait < 0 \/ cl.wait > 60 * TicksPerSecond THEN 1
    ELSE IF cl.relative /\ ~cl.available THEN 1
    ELSE IF cl.cmd = "shell" /\ cl.noargs THEN 2
    ELSE NoExit

C_Reject ==
    /\ cpc = "start"
    /\ Rejection(cargs) # NoExit
    /\ exit_code' = Rejection(cargs)
    /\ cpc' = "done"
    /\ UNCHANGED <<cargs, result, clock, trace, sent, screen_infos,
                   budget, auto_view_desc, mvars, rvars, evars, vvars>>

C_Dispatch ==
    /\ cpc = "start"
    /\ Rejection(cargs) = NoExit
    /\ cpc' = IF cargs.cmd \in {"tap", "swipe"} THEN "convert" ELSE "act"
    /\ UNCHANGED <<cargs, result, clock, trace, sent, screen_infos,
                   budget, auto_view_desc, exit_code, mvars, rvars, evars,
                   vvars>>

\* One call of convert_coordinates_if_needed; it asks the resolver for the
\* screen geometry only when the conversion functions were imported.
C_Convert ==
    /\ cpc = "convert"
    /\ Len(sent) < Len(cargs.points)
    /\ LET p == cargs.points[Len(sent) + 1] IN
       \E si \in (IF cargs.available THEN ControlInfos ELSE {NoInfo}) :
         /\ sent' = Append(sent,
                convert_coordinates_if_needed(p[1], p[2], cargs.relative,
                                              cargs.available, si))
         /\ screen_infos' = Append(screen_infos, si)
         /\ trace' = IF cargs.available THEN Append(trace, "resolve")
                     ELSE trace
    /\ cpc' = IF Len(sent) + 1 = Len(cargs.points) THEN "act" ELSE "convert"
    /\ UNCHANGED <<cargs, result, clock, budget, auto_view_desc, exit_code,
                   mvars, rvars, evars, vvars>>

ShouldObserveMutNoOk(auto_view, ok, cmd) ==
    auto_view /\ cmd \in auto_view_commands

ShouldObserveMutNoAutoView(auto_view, ok, cmd) ==
    ok /\ cmd \in auto_view_commands

\* if args.auto_view and result.ok: if args.cmd in auto_view_commands:
ShouldObserve(auto_view, ok, cmd) ==
    auto_view /\ ok /\ cmd \in auto_view_commands

\* The device action: command_func(...) of execute_with_auto_view, or the
\* adb.<command>() call of the commands main runs directly.  An exception
\* of subprocess.run is caught nowhere: the interpreter ends with status 1.
C_Act ==
    /\ cpc = "act"
    /\ \E kind \in ActionKinds(cargs.cmd), d \in Durations(cargs.timeout) :
         LET r == AdbClient_run(kind) IN
         /\ result' = r
         /\ clock' = CASE kind = "timeout" -> cargs.timeout * TicksPerSecond
                       [] kind \in {"unknown_app", "unlaunchable"} -> 0
                       [] OTHER -> d
         /\ trace' = IF kind = "unknown_app" THEN trace
                     ELSE Append(trace, "action")
         /\ IF r.state = "raised"
            THEN /\ cpc' = "done"
                 /\ exit_code' = 1
            ELSE /\ exit_code' = exit_code
                 /\ cpc' = IF /\ cargs.cmd \in Orchestrated
                              /\ ShouldObserve(cargs.auto_view, r.ok, cargs.cmd)
                           THEN IF cargs.wait > 0 THEN "wait" ELSE "observe"
                           ELSE "print"
    /\ UNCHANGED <<cargs, sent, screen_infos, budget, auto_view_desc,
                   mvars, rvars, evars, vvars>>

\* time.sleep(args.wait)
C_Wait ==
    /\ cpc = "wait"
    /\ clock' = clock + cargs.wait
    /\ trace' = Append(trace, "wait")
    /\ cpc' = "observe"
    /\ UNCHANGED <<cargs, result, sent, screen_infos, budget,
                   auto_view_desc, exit_code, mvars, rvars, evars, vvars>>

\* The budget is computed and _auto_view_screen runs the observer.
C_Observe ==
    /\ cpc = "observe"
    /\ budget' = RemainingTimeout(cargs.timeout, clock)
    /\ \E kind \in ObserveKinds :
         auto_view_desc' = _auto_view_screen(budget', cargs.json, kind)
    /\ trace' = Append(trace, "observe")
    /\ cpc' = "print"
    /\ UNCHANGED <<cargs, result, clock, sent, screen_infos, exit_code,
                   mvars, rvars, evars, vvars>>

RcOr1(returncode) == IF returncode = 0 THEN 1 ELSE returncode

ExitStatusMutObserved(cl, r) ==
    IF auto_view_desc.kind = "None"
       \/ (auto_view_desc.kind = "dict" /\ ~auto_view_desc.ok)
    THEN 1
    ELSE IF r.ok THEN 0 ELSE RcOr1(r.returncode)

\* _print_result and the return that follows it.  In text mode a failed
\* result ends the process with sys.exit(result.returncode or 1); otherwise
\* execute_with_auto_view returns 0 if result.ok else result.returncode or 1
\* and the commands main runs directly return 0.
ExitStatus(cl, r) ==
    IF ~cl.json /\ ~r.ok THEN RcOr1(r.returncode)
    ELSE IF cl.cmd \in Orchestrated
         THEN IF r.ok THEN 0 ELSE RcOr1(r.returncode)
         ELSE 0

C_Print ==
    /\ cpc = "print"
    /\ trace' = Append(trace, "print")
    /\ exit_code' = ExitStatus(cargs, result)
    /\ cpc' = "done"
    /\ UNCHANGED <<cargs, result, clock, sent, screen_infos, budget,
                   auto_view_desc, mvars, rvars, evars, vvars>>

ControlNext ==
    C_Reject \/ C_Dispatch \/ C_Convert \/ C_Act \/ C_Wait \/ C_Observe
    \/ C_Print

(***************************************************************************)
(* NarrativeElementExtractor: phone_view.py                                *)
(* parse_relative_coordinates_from_text.                                   *)
(*                                                                         *)
(* The description is split into lines.  A line is a record of what the    *)
(* tests and patterns of the loop body find in it:                         *)
(*   text      line.strip(), named                                         *)
(*   numbered  re.match(r'^\d+\.', line.strip())                           *)
(*   stars     "none": no ** in the line; "open": ** occurs but            *)
(*             \*\*(.+?)\*\* does not match; "label": it matches           *)
(*   label     group 1 of \*\*(.+?)\*\*                                    *)
(*   priority  group 1 of \((高|中|低)优先级\) as "H", "M" or "L", "" when   *)
(*             it does not match                                           *)
(*   rel, abs  the relative / legacy coordinate marker, see Marker         *)
(*   cmd       the command marker, see Command                             *)
(* In the text of a line REL stands for the relative marker 🎯 相对坐标：,  *)
(* ABS for the legacy marker 🎯 坐标： and CMD for 💻 命令：.                 *)
(***************************************************************************)
MaxNarrative == 3

\* A field the element dict does not have.
Absent == <<>>

\* A coordinate marker in a line.  kind "none": the marker text does not
\* occur; "bad": the text occurs but the pattern \((\d+),\s*(\d+)\) after it
\* does not match; "ok": the pattern matches with groups x, y.  long: a
\* group has more digits than int() converts where the interpreter limits
\* the conversion (4300 digits from CPython 3.11 on); x then stands for a
\* number above every screen dimension.
Marker(kind, x, y, long) == [kind |-> kind, x |-> x, y |-> y, long |-> long]
NoMarker == Marker("none", 0, 0, FALSE)
BadMarker == Marker("bad", 0, 0, FALSE)

\* A command marker in a line.  kind "none": the marker text does not occur;
\* "bad": it occurs with nothing the pattern ([^📝\n]+) can match after it;
\* "ok": group 1, stripped, is text.
Command(kind, text) == [kind |-> kind, text |-> text]
NoCommand == Command("none", "")

Line(text, numbered, stars, label, priority, rel, abs, cmd) ==
    [text |-> text, numbered |-> numbered, stars |-> stars, label |-> label,
     priority |-> priority, rel |-> rel, abs |-> abs, cmd |-> cmd]

\* The lines a narrative is made of here: title lines with and without a
\* closed label, with a priority, with markers on the title line itself;
\* a numbered line without **; marker lines that are well formed, out of
\* range, malformed, over-long, and ones carrying two markers; plain text.
NarrativeLines ==
    { Line("1. **A**", TRUE, "label", "A", "", NoMarker, NoMarker, NoCommand),
      Line("2. **B** (H)", TRUE, "label", "B", "H",
           NoMarker, NoMarker, NoCommand),
      Line("3. C **", TRUE, "open", "", "", NoMarker, NoMarker, NoCommand),
      Line("4. **D** REL(500, 150)", TRUE, "label", "D", "",
           Marker("ok", 500, 150, FALSE), NoMarker, NoCommand),
      Line("5. plain", TRUE, "none", "", "", NoMarker, NoMarker, NoCommand),
      Line("REL(500, 150)", FALSE, "none", "", "",
           Marker("ok", 500, 150, FALSE), NoMarker, NoCommand),
      Line("REL(1500, 205)", FALSE, "none", "", "",
           Marker("ok", 1500, 205, FALSE), NoMarker, NoCommand),
      Line("REL(x, y)", FALSE, "none", "", "",
           BadMarker, NoMarker, NoCommand),
      Line("REL(99...9, 150)", FALSE, "none", "", "",
           Marker("ok", 1000000, 150, TRUE), NoMarker, NoCommand),
      Line("ABS(540, 300)", FALSE, "none", "", "",
           NoMarker, Marker("ok", 540, 300, FALSE), NoCommand),
      Line("ABS(5000, 100)", FALSE, "none", "", "",
           NoMarker, Marker("ok", 5000, 100, FALSE), NoCommand),
      Line("ABS(x, y)", FALSE, "none", "", "",
           NoMarker, BadMarker, NoCommand),
      Line("REL(x, y) ABS(10, 20)", FALSE, "none", "", "",
           BadMarker, Marker("ok", 10, 20, FALSE), NoCommand),
      Line("ABS(10, 20) REL(300, 200)", FALSE, "none", "", "",
           Marker("ok", 300, 200, FALSE), Marker("ok", 10, 20, FALSE),
           NoCommand),
      Line("CMD tap --relative 500 150", FALSE, "none", "", "",
           NoMarker, NoMarker, Command("ok", "tap --relative 500 150")),
      Line("CMD", FALSE, "none", "", "",
           NoMarker, NoMarker, Command("bad", "")),
      Line("6. **E** (L)", TRUE, "label", "E", "L",
           NoMarker, NoMarker, NoCommand),
      Line("7. **F** (M)", TRUE, "label", "F", "M",
           NoMarker, NoMarker, NoCommand),
      Line("text (L)", FALSE, "none", "", "L", NoMarker, NoMarker, NoCommand),
      Line("8. **G** CMD tap 1 2", TRUE, "label", "G", "",
           NoMarker, NoMarker, Command("ok", "tap 1 2")),
      Line("REL(500, 150) CMD tap --relative 500 150", FALSE, "none", "", "",
           Marker("ok", 500, 150, FALSE), NoMarker,
           Command("ok", "tap --relative 500 150")),
      Line("ABS(540, 300) CMD tap 540 300", FALSE, "none", "", "",
           NoMarker, Marker("ok", 540, 300, FALSE),
           Command("ok", "tap 540 300")),
      Line("text", FALSE, "none", "", "", NoMarker, NoMarker, NoCommand) }

\* The screen_info the caller hands over: what get_accurate_screen_info
\* returned, which can carry width 0.
ExtractInfos == {DefaultInfo, MakeInfo(0, 1280, 320, "adb")}

\* if re.match(r'^\d+\.', line.strip()) and '**' in line:
IsTitleLine(l) == l.numbered /\ l.stars # "none"

priority_mapMutLow(p) ==
    CASE p = "H" -> "high"
      [] OTHER -> "medium"

\* priority_map.get(priority_match.group(1), 'medium'), 'medium' without a
\* match.
priority_map(p) ==
    CASE p = "H" -> "high"
      [] p = "M" -> "medium"
      [] p = "L" -> "low"
      [] OTHER -> "medium"

NewElementMutCommand(l) ==
    [description |-> IF l.stars = "label" THEN l.label ELSE l.text,
     type |-> "unknown", priority |-> priority_map(l.priority),
     relative_coordinates |-> Absent, coordinates |-> Absent,
     command |-> <<"">>]

\* The dict a title line starts: the label, or the stripped line when
\* \*\*(.+?)\*\* does not match; no coordinate and no command key.
NewElement(l) ==
    [description |-> IF l.stars = "label" THEN l.label ELSE l.text,
     type |-> "unknown", priority |-> priority_map(l.priority),
     relative_coordinates |-> Absent, coordinates |-> Absent,
     command |-> Absent]

\* elif '🎯 相对坐标：' in line and current_element:
RelativeBranch(l, cur) == l.rel.kind # "none" /\ cur # <<>>

LegacyBranchMutAlways(l, cur) == l.abs.kind # "none" /\ cur # <<>>

\* elif '🎯 坐标：' in line and current_element
\*      and 'coordinates' not in current_element:
LegacyBranch(l, cur) ==
    l.abs.kind # "none" /\ cur # <<>> /\ cur[1].coordinates = Absent

\* elif '💻 命令：' in line and current_element:
CommandBranch(l, cur) == l.cmd.kind # "none" /\ cur # <<>>

\* int(coord_match.group(n)) raises ValueError for an over-long group where
\* the interpreter limits the conversion.
IntRaises(m, limited) == m.long /\ limited

\* convert_absolute_to_relative divides by screen_width and screen_height.
DivisionRaises(si) == si.width = 0 \/ si.height = 0

Failed == [raised |-> TRUE, elements |-> <<>>, current_element |-> <<>>]
Went(els, cur) == [raised |-> FALSE, elements |-> els, current_element |-> cur]

\* One pass of the loop body for line l.
ScanLine(els, cur, l, si, limited) ==
    IF IsTitleLine(l)
    THEN Went(IF cur # <<>> THEN Append(els, cur[1]) ELSE els,
              <<NewElement(l)>>)
    ELSE IF RelativeBranch(l, cur)
    THEN IF l.rel.kind # "ok" THEN Went(els, cur)
         ELSE IF IntRaises(l.rel, limited) THEN Failed
         ELSE Went(els,
                <<[cur[1] EXCEPT
                    !.relative_coordinates = <<l.rel.x, l.rel.y>>,
                    !.coordinates =
                        convert_relative_to_absolute(l.rel.x, l.rel.y,
                                                     si.width, si.height)]>>)
    ELSE IF LegacyBranch(l, cur)
    THEN IF l.abs.kind # "ok" THEN Went(els, cur)
         ELSE IF IntRaises(l.abs, limited) \/ DivisionRaises(si) THEN Failed
         ELSE Went(els,
                <<[cur[1] EXCEPT
                    !.coordinates = <<l.abs.x, l.abs.y>>,
                    !.relative_coordinates =
                        convert_absolute_to_relative(l.abs.x, l.abs.y,
                                                     si.width, si.height)]>>)
    ELSE IF CommandBranch(l, cur)
    THEN IF l.cmd.kind # "ok" THEN Went(els, cur)
         ELSE Went(els, <<[cur[1] EXCEPT !.command = <<l.cmd.text>>]>>)
    ELSE Went(els, cur)

(***************************************************************************)
(* SpecExtract: one call of parse_relative_coordinates_from_text.  Each    *)
(* step scans the next line of the description; the call returns when the  *)
(* lines are used up (description.split gives at least one line).          *)
(***************************************************************************)
ExtractInit ==
    /\ mpc = "idle"
    /\ args = IdleArgs
    /\ abs_out = <<0, 0>>
    /\ rel_out = <<0, 0>>
    /\ valid_out = <<0, 0, FALSE>>
    /\ valid_out2 = <<0, 0, FALSE>>
    /\ rpc = "idle"
    /\ env = IdleEnv
    /\ locals = NoLocals
    /\ issued = <<>>
    /\ info = NoInfo
    /\ cpc = "idle"
    /\ cargs = IdleCommandLine
    /\ result = NoResult
    /\ clock = 0
    /\ trace = <<>>
    /\ sent = <<>>
    /\ screen_infos = <<>>
    /\ budget = 0
    /\ auto_view_desc = NoDesc
    /\ exit_code = NoExit
    /\ epc = "scan"
    /\ parse_info \in ExtractInfos
    /\ narrative = <<>>
    /\ elements = <<>>
    /\ current_element = <<>>
    /\ vpc = "idle"
    /\ vargs = IdleViewArgs
    /\ view_info = NoInfo
    /\ response = "unset"
    /\ desc = NoDescription
    /\ printed = NothingPrinted
    /\ view_exit = NoExit

\* for line in lines: the body, for the next line of the description.
E_Line ==
    /\ epc = "scan"
    /\ Len(narrative) < MaxNarrative
    /\ \E l \in NarrativeLines, limited \in BOOLEAN :
         LET r == ScanLine(elements, current_element, l, parse_info, limited)
         IN  /\ narrative' = Append(narrative, l)
             /\ IF r.raised
                THEN /\ epc' = "raised"
                     /\ UNCHANGED <<elements, current_element>>
                ELSE /\ epc' = "scan"
                     /\ elements' = r.elements
                     /\ current_element' = r.current_element
    /\ UNCHANGED <<parse_info, mvars, rvars, cvars, vvars>>

\* The lines are used up: the last element is added and the list returned.
E_Return ==
    /\ epc = "scan"
    /\ Len(narrative) >= 1
    /\ elements' = IF current_element # <<>>
                   THEN Append(elements, current_element[1])
                   ELSE elements
    /\ epc' = "done"
    /\ UNCHANGED <<parse_info, narrative, current_element, mvars, rvars,
                   cvars, vvars>>

ExtractNext == E_Line \/ E_Return

(***************************************************************************)
(* phone_view.py main: capture a screenshot, then for `describe` resolve   *)
(* the screen geometry, ask the vision endpoint and print.                 *)
(***************************************************************************)
RECURSIVE ScanFrom(_, _, _, _, _)
\* for line in lines: the loop of parse_relative_coordinates_from_text from
\* line i on, stopping at the first exception.
ScanFrom(r, lines, i, si, limited) ==
    IF r.raised \/ i > Len(lines) THEN r
    ELSE ScanFrom(ScanLine(r.elements, r.current_element, lines[i], si,
                           limited),
                  lines, i + 1, si, limited)

\* parse_relative_coordinates_from_text(description, screen_info) for a
\* description given as its lines.
parse_relative_coordinates_from_text(lines, si, limited) ==
    LET r == ScanFrom(Went(<<>>, <<>>), lines, 1, si, limited) IN
    IF r.raised THEN Failed
    ELSE Went(IF r.current_element # <<>>
              THEN Append(r.elements, r.current_element[1])
              ELSE r.elements, <<>>)

LineNamed(t) == CHOOSE l \in NarrativeLines : l.text = t

\* The texts a vision model answers with, as their lines.
Descriptions ==
    { <<LineNamed("text")>>,
      <<LineNamed("1. **A**"), LineNamed("REL(500, 150)")>>,
      <<LineNamed("1. **A**"), LineNamed("ABS(540, 300)")>> }

\* What get_accurate_screen_info may hand to main.
ViewInfos == {DefaultInfo, MakeInfo(720, 1280, 320, "screenshot"),
              MakeInfo(0, 1280, DefaultDensity, "adb")}

\* What the POST to <model_url>/chat/completions can do: a JSON body whose
\* choices[0].message.content is a string ("content_str") or null
\* ("content_null"), a JSON object without choices[0] ("no_choices") or
\* without message.content ("no_content"), JSON that is not an object
\* ("not_object"), a body that is not JSON ("bad_json"), an HTTP error
\* status, a connection failure, a socket timeout while reading.
ResponseKinds == {"content_str", "content_null", "no_choices", "no_content",
                  "not_object", "bad_json", "HTTPError", "URLError",
                  "timeout"}

\* _post_json: HTTPError and URLError become RuntimeError; json.loads and
\* a timeout of resp.read() raise their own exceptions.
_post_json(kind) ==
    IF kind \in {"HTTPError", "URLError", "bad_json", "timeout"} THEN "raised"
    ELSE "returned"

\* describe_screenshot: data["choices"][0]["message"]["content"], with any
\* exception of the lookup turned into RuntimeError.  A null content is
\* looked up without an exception and returned as None.
describe_screenshot(kind, lines) ==
    IF _post_json(kind) = "raised"
    THEN [raised |-> TRUE, value |-> NoDescription]
    ELSE CASE kind = "content_str" ->
                [raised |-> FALSE, value |-> [kind |-> "str", lines |-> lines]]
           [] kind = "content_null" ->
                [raised |-> FALSE, value |-> [kind |-> "None", lines |-> <<>>]]
           [] OTHER -> [raised |-> TRUE, value |-> NoDescription]

\* The describe command lines; capture takes none of the coordinate options.
ViewCommandLines ==
    {[cmd |-> "describe", json |-> j, with_coords |-> w, coords_format |-> f,
      save_coords |-> sv] :
        j \in BOOLEAN, w \in BOOLEAN, f \in {"text", "json"}, sv \in BOOLEAN}
    \cup {[IdleViewArgs EXCEPT !.json = j] : j \in BOOLEAN}

DescribeInit ==
    /\ mpc = "idle"
    /\ args = IdleArgs
    /\ abs_out = <<0, 0>>
    /\ rel_out = <<0, 0>>
    /\ valid_out = <<0, 0, FALSE>>
    /\ valid_out2 = <<0, 0, FALSE>>
    /\ rpc = "idle"
    /\ env = IdleEnv
    /\ locals = NoLocals
    /\ issued = <<>>
    /\ info = NoInfo
    /\ cpc = "idle"
    /\ cargs = IdleCommandLine
    /\ result = NoResult
    /\ clock = 0
    /\ trace = <<>>
    /\ sent = <<>>
    /\ screen_infos = <<>>
    /\ budget = 0
    /\ auto_view_desc = NoDesc
    /\ exit_code = NoExit
    /\ epc = "idle"
    /\ parse_info = NoInfo
    /\ narrative = <<>>
    /\ elements = <<>>
    /\ current_element = <<>>
    /\ vpc = "capture"
    /\ vargs \in ViewCommandLines
    /\ view_info = NoInfo
    /\ response = "unset"
    /\ desc = NoDescription
    /\ printed = NothingPrinted
    /\ view_exit = NoExit

\* capture_screenshot in its try block: any exception ends main with 1.
\* The capture command prints the path (or the result as JSON) and ends.
V_Capture ==
    /\ vpc = "capture"
    /\ \E captured \in BOOLEAN :
         IF ~captured
         THEN /\ view_exit' = 1
              /\ vpc' = "done"
              /\ printed' = printed
         ELSE IF vargs.cmd = "capture"
         THEN /\ view_exit' = 0
              /\ vpc' = "done"
              /\ printed' = [printed EXCEPT !.path = TRUE]
         ELSE /\ view_exit' = view_exit
              /\ vpc' = "geometry"
              /\ printed' = printed
    /\ UNCHANGED <<vargs, view_info, response, desc, mvars, rvars, cvars,
                   evars>>

\* screen_info = None; if args.with_coords: get_accurate_screen_info(...).
\* The resolver catches every exception itself and answers with its default
\* dict when it cannot resolve the geometry.
V_Geometry ==
    /\ vpc = "geometry"
    /\ \E si \in (IF vargs.with_coords THEN ViewInfos ELSE {NoInfo}) :
         view_info' = si
    /\ vpc' = "describe"
    /\ UNCHANGED <<vargs, response, desc, printed, view_exit, mvars, rvars,
                   cvars, evars>>

\* describe_screenshot in its try block: any exception ends main with 2.
V_Describe ==
    /\ vpc = "describe"
    /\ \E kind \in ResponseKinds, lines \in Descriptions :
         LET r == describe_screenshot(kind, lines) IN
         /\ response' = kind
         /\ IF r.raised
            THEN /\ view_exit' = 2
                 /\ vpc' = "done"
                 /\ desc' = desc
            ELSE /\ view_exit' = view_exit
                 /\ vpc' = "output"
                 /\ desc' = r.value
    /\ UNCHANGED <<vargs, view_info, printed, mvars, rvars, cvars, evars>>

\* parse_relative_coordinates_from_text(desc, screen_info) as main calls
\* it: desc.split raises AttributeError for None.
ParseOf(d, si, limited) ==
    IF d.kind = "None" THEN Failed
    ELSE parse_relative_coordinates_from_text(d.lines, si, limited)

\* result["description"] = desc and the output.  An exception of the parser
\* is caught nowhere: the interpreter ends with status 1.  In JSON mode, and
\* for --coords-format json, the parser runs before anything is printed; for
\* --save-coords it runs after the description was printed.
V_Output ==
    /\ vpc = "output"
    /\ \E limited \in BOOLEAN :
         LET p == ParseOf(desc, view_info, limited)
             parse_first == /\ vargs.with_coords
                            /\ (vargs.json \/ vargs.coords_format = "json")
             parse_last == /\ ~vargs.json
                           /\ vargs.with_coords
                           /\ vargs.save_coords
         IN  /\ printed' =
                  IF parse_first /\ p.raised THEN printed
                  ELSE [printed EXCEPT
                          !.description = desc.kind,
                          !.elements = IF parse_first /\ (vargs.json
                                            \/ p.elements # <<>>)
                                       THEN <<p.elements>> ELSE <<>>]
             /\ view_exit' = IF (parse_first \/ parse_last) /\ p.raised
                             THEN 1 ELSE 0
    /\ vpc' = "done"
    /\ UNCHANGED <<vargs, view_info, response, desc, mvars, rvars, cvars,
                   evars>>

DescribeNext == V_Capture \/ V_Geometry \/ V_Describe \/ V_Output

(***************************************************************************)
(* The specifications.                                                     *)
(***************************************************************************)
SpecMapper == MapperInit /\ [][MapperNext]_vars

SpecResolver == ResolverInit /\ [][ResolverNext]_vars

SpecControl == ControlInit /\ [][ControlNext]_vars

SpecExtract == ExtractInit /\ [][ExtractNext]_vars

SpecDescribe == DescribeInit /\ [][DescribeNext]_vars

(***************************************************************************)
(* Properties of the coordinate mapper, under SpecMapper.                  *)
(***************************************************************************)
InRelRange(v) == 0 <= v /\ v <= 999
Within1(a, b) == a - b <= 1 /\ b - a <= 1

\* C1 as stated: for relX, relY in [0,999] and every width, height > 0 the
\* round trip relative -> absolute -> relative returns each component within
\* 1 of the original.
C1_RoundTripEverySize ==
    (mpc = "rel" /\ InRelRange(args.x) /\ InRelRange(args.y))
        => (Within1(rel_out[1], args.x) /\ Within1(rel_out[2], args.y))

\* C1 amended: for relX, relY in [0,999] and every width, height >= 1000 the
\* round trip relative -> absolute -> relative returns each component within
\* 1 of the original.
C1_RoundTripFrom1000 ==
    (/\ mpc = "rel"
     /\ InRelRange(args.x) /\ InRelRange(args.y)
     /\ args.width >= 1000 /\ args.height >= 1000)
        => (Within1(rel_out[1], args.x) /\ Within1(rel_out[2], args.y))

\* A round trip on a screen of at least 1000 pixels that lost one unit.
C1_Witness ==
    /\ mpc = "rel"
    /\ InRelRange(args.x) /\ InRelRange(args.y)
    /\ args.width >= 1000 /\ args.height >= 1000
    /\ rel_out[1] = args.x - 1

\* C2: relativeToAbsolute maps 0 to 0 and, for any integer relative input
\* and any width, height > 0, returns 0 <= absX < width, 0 <= absY < height.
C2_BoundaryExactness ==
    mpc = "abs" =>
        /\ 0 <= abs_out[1] /\ abs_out[1] < args.width
        /\ 0 <= abs_out[2] /\ abs_out[2] < args.height
        /\ args.x = 0 => abs_out[1] = 0
        /\ args.y = 0 => abs_out[2] = 0

\* relativeToAbsolute(999, 999, 1080, 2400) has been computed and lies
\* strictly inside the screen.
C2_Witness ==
    /\ mpc = "abs"
    /\ args = [x |-> 999, y |-> 999, width |-> 1080, height |-> 2400]
    /\ abs_out[1] < 1080 /\ abs_out[2] < 2400

\* C3 as stated: relativeToAbsolute clamps relX, relY to [0,999] and returns
\* (floor(relX * width / 1000), floor(relY * height / 1000)).
C3_EqualsReferenceFloor ==
    mpc = "abs" =>
        LET cx == IF args.x < 0 THEN 0 ELSE IF args.x > 999 THEN 999 ELSE args.x
            cy == IF args.y < 0 THEN 0 ELSE IF args.y > 999 THEN 999 ELSE args.y
        IN  abs_out = <<(cx * args.width) \div 1000,
                        (cy * args.height) \div 1000>>

\* C4: validate returns (clamp(x,0,width-1), clamp(y,0,height-1),
\* wasCorrected), wasCorrected being true exactly when x or y lay outside
\* the screen; an in-range coordinate inside a soft margin comes back
\* unchanged with wasCorrected = false.
C4_ValidateClamps ==
    mpc = "valid" =>
        LET w == args.width
            h == args.height
            cx == IF args.x < 0 THEN 0 ELSE IF args.x > w - 1 THEN w - 1
                  ELSE args.x
            cy == IF args.y < 0 THEN 0 ELSE IF args.y > h - 1 THEN h - 1
                  ELSE args.y
            outside == args.x < 0 \/ args.x > w - 1 \/ args.y < 0
                       \/ args.y > h - 1
        IN  /\ valid_out = <<cx, cy, outside>>
            /\ (~outside /\ validate_warnings(args.x, args.y, w, h) # {})
                   => valid_out = <<args.x, args.y, FALSE>>

\* An in-range coordinate inside a soft margin was validated.
C4_Witness ==
    /\ mpc = "valid"
    /\ 0 <= args.x /\ args.x < args.width
    /\ 0 <= args.y /\ args.y < args.height
    /\ "edge_x" \in validate_warnings(args.x, args.y, args.width, args.height)
    /\ valid_out[3] = FALSE

\* C5: validate applied to the coordinates validate returned gives the same
\* coordinates with wasCorrected = false.
C5_ClampIdempotence ==
    mpc = "valid2" => valid_out2 = <<valid_out[1], valid_out[2], FALSE>>

\* A coordinate the first call had to correct was validated a second time.
C5_Witness ==
    /\ mpc = "valid2"
    /\ valid_out[3] = TRUE
    /\ valid_out[1] # args.x
    /\ valid_out2[3] = FALSE

(***************************************************************************)
(* Properties of the screen-info resolver, under SpecResolver.             *)
(***************************************************************************)
\* Method 1 applies: a screenshot was supplied, exists, and decodes.
ScreenshotDecodes == UsesScreenshot(env) /\ env.shot.state = "decodable"

\* The size commands issued so far, in order.
SizeFacts == SelectSeq(issued, LAMBDA f : f.cmd # "wm density")

\* The signal of a size strategy, as the spec defines it: the physical-size
\* command needs a successful exit and a match; the window-displays dump an
\* init= match other than 1080x2400; the raw window dump a match.
Signal(f) ==
    CASE f.cmd = "wm size" ->
            IF f.ok /\ f.found # NoMatch THEN f.found ELSE NoMatch
      [] f.cmd = "dumpsys window displays" ->
            IF f.found # NoMatch /\ f.found # <<1080, 2400>>
            THEN f.found ELSE NoMatch
      [] f.cmd = "dumpsys window" -> f.found
      [] OTHER -> NoMatch

HasSignal == \E i \in 1..Len(SizeFacts) : Signal(SizeFacts[i]) # NoMatch
FirstSignal ==
    LET i == CHOOSE i \in 1..Len(SizeFacts) :
                 /\ Signal(SizeFacts[i]) # NoMatch
                 /\ \A j \in 1..(i - 1) : Signal(SizeFacts[j]) = NoMatch
    IN  Signal(SizeFacts[i])

\* C6 as stated: whatever the queries do, the resolver returns a ScreenInfo
\* with width > 0, height > 0, density > 0, aspectRatio = width / height and
\* a source among screenshot, deviceQuery ("adb") and default.
C6_ResolverAlwaysUsable ==
    rpc = "done" =>
        /\ info.width > 0 /\ info.height > 0 /\ info.density > 0
        /\ info.aspect_ratio = <<info.width, info.height>>
        /\ info.source \in {"screenshot", "adb", "default"}

\* Every command issued so far could be launched.
AllLaunched == \A i \in 1..Len(issued) : ~issued[i].raised

\* C7 as stated, its first half taken only where every command could be
\* launched and the size found has no zero component: when the screenshot
\* strategy fails and the device size query yields a size, the result
\* carries that size tagged deviceQuery ("adb"); when no strategy yields a
\* size the result is exactly (1080, 2400, 420, default).
C7_FallbackOrdering ==
    (rpc = "done" /\ ~ScreenshotDecodes) =>
        IF HasSignal
        THEN (AllLaunched /\ FirstSignal[1] > 0 /\ FirstSignal[2] > 0)
                 => /\ <<info.width, info.height>> = FirstSignal
                    /\ info.source = "adb"
        ELSE info = [width |-> 1080, height |-> 2400, density |-> 420,
                     aspect_ratio |-> <<1080, 2400>>, source |-> "default"]

\* C8 as stated: a screenshot that decodes gives the result its size, tagged
\* screenshot, whatever the density query does; a density query that fails
\* in any way leaves density 420.
C8_ScreenshotPrecedence ==
    (rpc = "done" /\ ScreenshotDecodes) =>
        /\ <<info.width, info.height>> = env.shot.size
        /\ info.source = "screenshot"
        /\ (issued[1].raised \/ ~issued[1].ok \/ issued[1].found = NoMatch)
               => info.density = 420

\* C9: the size strategies are issued in the order wm size, dumpsys window
\* displays, dumpsys window; one is issued only after every earlier one
\* yielded no signal; the size returned is the first signal, and 1080x2400
\* is returned for want of a signal only after all three were tried.
C9_StrictStrategyOrder ==
    /\ Len(SizeFacts) <= 3
    /\ \A i \in 1..Len(SizeFacts) :
         /\ SizeFacts[i].cmd =
              <<"wm size", "dumpsys window displays", "dumpsys window">>[i]
         /\ \A j \in 1..(i - 1) : Signal(SizeFacts[j]) = NoMatch
    /\ rpc = "m2_density" =>
         IF HasSignal
         THEN <<locals.width, locals.height>> = FirstSignal
         ELSE /\ <<locals.width, locals.height>> = <<1080, 2400>>
              /\ Len(SizeFacts) = 3

\* The window-displays dump printed init=1080x2400, which counted as no
\* signal, and the raw window dump then gave the size.
C9_Witness ==
    /\ rpc = "m2_density"
    /\ Len(SizeFacts) = 3
    /\ SizeFacts[2].found = <<1080, 2400>>
    /\ Signal(SizeFacts[3]) = <<720, 2400>>
    /\ <<locals.width, locals.height>> = <<720, 2400>>

(***************************************************************************)
(* Properties of the orchestration, under SpecControl.                     *)
(***************************************************************************)
\* C10: when the device action of tap, swipe, key, text or app fails, no
\* wait and no observation takes place in that invocation, and it ends with
\* the action's failure status.
C10_FailedActionSkipsObservation ==
    (/\ cargs.cmd \in {"tap", "swipe", "key", "text", "app"}
     /\ result.state # "none"
     /\ ~result.ok) =>
        /\ \A i \in 1..Len(trace) : trace[i] \notin {"wait", "observe"}
        /\ cpc \in {"print", "done"}
        /\ auto_view_desc = NoDesc
        /\ cpc = "done" =>
             /\ exit_code # 0
             /\ result.state = "returned" => exit_code = result.returncode

\* A tap with auto-view enabled timed out and the invocation ended with 124.
C10_Witness ==
    /\ cpc = "done"
    /\ cargs.cmd = "tap" /\ cargs.auto_view /\ cargs.wait > 0
    /\ result.state = "returned" /\ result.returncode = 124
    /\ exit_code = 124
    /\ trace[Len(trace)] = "print"

\* The steps of one kind in the trace so far.
Took(step) == \E i \in 1..Len(trace) : trace[i] = step

\* C11 as stated: whenever the device action of any command (connect,
\* devices, tap, swipe, key, text, app, stop, shell) fails, in text mode and
\* in JSON mode alike, the invocation ends with a non-zero exit status.
C11_ActionFailurePropagates ==
    (cpc = "done" /\ result.state # "none" /\ ~result.ok) =>
        (exit_code # NoExit /\ exit_code # 0)

\* C12: whenever the device action succeeded, the invocation ends with exit
\* status 0 and the action result is still marked ok, whatever the
\* observation step did (success, non-zero exit, timeout, observer script
\* missing, any other exception); what the observation did is only what is
\* handed to the printing of the result.
C12_ObservationIsAdvisory ==
    (cpc = "done" /\ result.state = "returned" /\ result.ok) =>
        /\ exit_code = 0
        /\ result = [state |-> "returned", ok |-> TRUE, returncode |-> 0]

\* A tap succeeded, its observation ran into the timeout, and the invocation
\* ended with status 0 and the timeout noted in the auto-view annotation.
C12_Witness ==
    /\ cpc = "done"
    /\ cargs.cmd = "tap" /\ cargs.json
    /\ result.ok
    /\ Took("observe")
    /\ auto_view_desc.kind = "dict" /\ ~auto_view_desc.ok
    /\ auto_view_desc.timeout_error
    /\ exit_code = 0

\* C13 as stated, taken in JSON mode, where the result carries the flag of
\* the detected timeout: whenever the observation ends in a detected timeout
\* the result carries timeoutError = true and a suggested timeout of exactly
\* twice the configured timeout of the invocation; when the observation
\* fails for another reason no suggested timeout is given.
C13_SuggestedTimeoutIsTwiceConfigured ==
    (auto_view_desc.kind = "dict" /\ ~auto_view_desc.ok) =>
        IF auto_view_desc.timeout_error
        THEN auto_view_desc.suggested_timeout = 2 * cargs.timeout
        ELSE auto_view_desc.suggested_timeout = 0

\* C14 as stated: the timeout handed to the observation step is
\* max(10, configuredTimeout - elapsed), elapsed being the time since the
\* action started with the wait in it (in half-seconds: twice the budget is
\* max(20, 2 * timeout - clock)).
C14_BudgetIsExactRemainder ==
    Took("observe") =>
        2 * budget = Max(20, 2 * cargs.timeout - clock)

\* C14 amended: the timeout handed to the observation step is the whole
\* number of seconds in max(10, configuredTimeout - elapsed), elapsed being
\* the time since the action started with the wait in it, which is not
\* subtracted a second time (configured 30, wait 1.5, elapsed 3 gives 27);
\* the budget is at least 10 seconds for every timeout, wait and elapsed
\* time.
C14_BudgetIsWholeSecondsOfRemainder ==
    Took("observe") =>
        /\ budget = Max(20, 2 * cargs.timeout - clock) \div 2
        /\ budget >= 10
        /\ (cargs.timeout = 30 /\ cargs.wait = 3 /\ clock = 6) => budget = 27

\* Configured 30 s, wait 1.5 s, 3 s elapsed at the start of the observation:
\* the budget handed on is 27.
C14_Witness ==
    /\ Took("observe")
    /\ cargs.timeout = 30 /\ cargs.wait = 3 /\ clock = 6
    /\ budget = 27

\* C15: connect, devices, stop and shell never wait and never observe the
\* screen, with auto-view enabled or not and whether the action succeeds or
\* not; and with auto-view disabled no command triggers an observation.
C15_OrchestrationSkipRule ==
    /\ cargs.cmd \notin {"tap", "swipe", "key", "text", "app"} =>
         /\ ~Took("wait") /\ ~Took("observe")
         /\ cpc \notin {"wait", "observe"}
         /\ auto_view_desc = NoDesc
    /\ ~cargs.auto_view =>
         /\ ~Took("observe")
         /\ cpc # "observe"
         /\ auto_view_desc = NoDesc

\* devices succeeded with auto-view enabled and a wait configured, and the
\* invocation ended after the action and the printing of its result alone.
C15_Witness ==
    /\ cpc = "done"
    /\ cargs.cmd = "devices" /\ cargs.auto_view /\ cargs.wait > 0
    /\ result.ok
    /\ trace = <<"action", "print">>
    /\ exit_code = 0

(***************************************************************************)
(* Properties of the narrative extractor, under SpecExtract.  They speak   *)
(* of the list a call returns (epc = "done") and of the steps of a scan    *)
(* that goes on; that a call can raise instead is the subject of C18.      *)
(***************************************************************************)
\* The lines that start an element, in the order of the narrative.
TitleIndexes == {i \in 1..Len(narrative) : IsTitleLine(narrative[i])}
NthTitle(k) ==
    CHOOSE i \in TitleIndexes : Cardinality({j \in TitleIndexes : j <= i}) = k

\* The block of the k-th element: its title line and the lines after it up
\* to the next title line.
BlockOf(k) ==
    {i \in 1..Len(narrative) :
        /\ i >= NthTitle(k)
        /\ \A j \in TitleIndexes : j > NthTitle(k) => i < j}

\* The lines of the form <integer>. ... **<label>** ...
FormIndexes ==
    {i \in 1..Len(narrative) :
        narrative[i].numbered /\ narrative[i].stars = "label"}
NthForm(k) ==
    CHOOSE i \in FormIndexes : Cardinality({j \in FormIndexes : j <= i}) = k

LastOf(S) == CHOOSE i \in S : \A j \in S : j <= i

\* C16 as stated, for a screenInfo with width, height > 0: for every element
\* block that contains a well-formed relative-coordinate marker, with a
\* legacy marker before it, after it or not at all, the finished element's
\* relativeCoordinate is the value of the (last) relative marker and its
\* absoluteCoordinate is relativeToAbsolute of that value for the supplied
\* screenInfo.
C16_RelativeAlwaysWins ==
    (epc = "done" /\ parse_info.width > 0 /\ parse_info.height > 0) =>
        \A k \in 1..Len(elements) :
            LET rels == {i \in BlockOf(k) : narrative[i].rel.kind = "ok"} IN
            rels # {} =>
                LET m == narrative[LastOf(rels)].rel IN
                /\ elements[k].relative_coordinates = <<m.x, m.y>>
                /\ elements[k].coordinates =
                       convert_relative_to_absolute(m.x, m.y, parse_info.width,
                                                    parse_info.height)

\* C17 as stated, for a screenInfo with width, height > 0: every returned
\* element that carries coordinates has each component of its
\* relativeCoordinate in [0,999] and its absoluteCoordinate in
\* [0,width-1] x [0,height-1], also when the markers state out-of-range
\* numbers.
C17_ElementsKeepCoordinateInvariant ==
    (epc = "done" /\ parse_info.width > 0 /\ parse_info.height > 0) =>
        \A k \in 1..Len(elements) :
            LET rel == elements[k].relative_coordinates
                abs == elements[k].coordinates
            IN  /\ rel # Absent => (InRelRange(rel[1]) /\ InRelRange(rel[2]))
                /\ abs # Absent =>
                     /\ 0 <= abs[1] /\ abs[1] <= parse_info.width - 1
                     /\ 0 <= abs[2] /\ abs[2] <= parse_info.height - 1

\* C18 as stated, for a screenInfo with width, height > 0: extraction never
\* fails, and it returns exactly one element per line of the form
\* <integer>. ... **<label>** ..., in the order of those lines in the
\* narrative (so the empty sequence when there is none, whatever marker
\* lines the narrative has).
C18_OneElementPerTitleLine ==
    (parse_info.width > 0 /\ parse_info.height > 0) =>
    /\ epc # "raised"
    /\ epc = "done" =>
         /\ Len(elements) = Cardinality(FormIndexes)
         /\ \A k \in 1..Len(elements) :
              elements[k].description = narrative[NthForm(k)].label

\* C19: a legacy absolute-coordinate marker is honored only if the current
\* element has no coordinate attached yet, and then absoluteCoordinate
\* becomes the marker's value and relativeCoordinate absoluteToRelative of
\* it for the supplied screenInfo; once the element has a coordinate, a
\* further legacy marker in its block leaves both coordinates unchanged.
\* (Lines after the title line that carry no well-formed relative marker;
\* a line without any relative-marker text is always honored when the
\* element has no coordinate.)
C19_LegacyMarkerOnlyFillsEmpty ==
    [][ (/\ epc = "scan" /\ epc' = "scan"
         /\ Len(narrative') = Len(narrative) + 1
         /\ current_element # <<>>
         /\ narrative'[Len(narrative')].abs.kind = "ok"
         /\ narrative'[Len(narrative')].rel.kind # "ok"
         /\ ~IsTitleLine(narrative'[Len(narrative')])) =>
          LET l == narrative'[Len(narrative')]
              cur == current_element[1]
              nxt == current_element'[1]
              honored ==
                  /\ nxt.coordinates = <<l.abs.x, l.abs.y>>
                  /\ nxt.relative_coordinates =
                         convert_absolute_to_relative(l.abs.x, l.abs.y,
                             parse_info.width, parse_info.height)
              unchanged ==
                  /\ nxt.coordinates = cur.coordinates
                  /\ nxt.relative_coordinates = cur.relative_coordinates
          IN  /\ current_element' # <<>>
              /\ cur.coordinates # Absent => unchanged
              /\ ~unchanged => (cur.coordinates = Absent /\ honored)
              /\ (cur.coordinates = Absent /\ l.rel.kind = "none") => honored
      ]_vars

\* An element took its coordinates from a first legacy marker, and a second
\* legacy marker in the same block changed neither of them.
C19_Witness ==
    /\ epc = "scan"
    /\ parse_info = DefaultInfo
    /\ Len(narrative) = 3
    /\ IsTitleLine(narrative[1])
    /\ narrative[2].abs = Marker("ok", 540, 300, FALSE)
    /\ narrative[2].rel.kind = "none"
    /\ narrative[3].abs = Marker("ok", 5000, 100, FALSE)
    /\ narrative[3].rel.kind = "none"
    /\ current_element # <<>>
    /\ current_element[1].coordinates = <<540, 300>>
    /\ current_element[1].relative_coordinates = <<500, 125>>

\* C20: a narrative of one element-title line followed only by a
\* relative-coordinate line yields exactly one element with
\* relativeCoordinate and the derived absoluteCoordinate populated and no
\* suggested command; in general a coordinate is populated only if a
\* coordinate marker occurred in the element's block and the command only
\* if a command marker did, and every title line yields an element, also
\* one with nothing but a description.
C20_ExtractionResilience ==
    epc = "done" =>
        /\ (/\ Len(narrative) = 2
            /\ FormIndexes = {1}
            /\ narrative[2].rel.kind = "ok") =>
               /\ Len(elements) = 1
               /\ elements[1].description = narrative[1].label
               /\ elements[1].relative_coordinates =
                      <<narrative[2].rel.x, narrative[2].rel.y>>
               /\ elements[1].coordinates =
                      convert_relative_to_absolute(narrative[2].rel.x,
                          narrative[2].rel.y, parse_info.width,
                          parse_info.height)
               /\ elements[1].command = Absent
        /\ Len(elements) = Cardinality(TitleIndexes)
        /\ \A k \in 1..Len(elements) :
             /\ (\/ elements[k].relative_coordinates # Absent
                 \/ elements[k].coordinates # Absent) =>
                    \E i \in BlockOf(k) : \/ narrative[i].rel.kind = "ok"
                                          \/ narrative[i].abs.kind = "ok"
             /\ elements[k].command # Absent =>
                    \E i \in BlockOf(k) : narrative[i].cmd.kind = "ok"
             /\ elements[k].description =
                    IF narrative[NthTitle(k)].stars = "label"
                    THEN narrative[NthTitle(k)].label
                    ELSE narrative[NthTitle(k)].text

\* The narrative "1. **A**" / relative marker (500, 150) on a 1080x2400
\* screen gave one element with both coordinates and no command.
C20_Witness ==
    /\ epc = "done"
    /\ parse_info = DefaultInfo
    /\ Len(narrative) = 2
    /\ narrative[1].label = "A" /\ narrative[1].rel.kind = "none"
    /\ narrative[2].rel = Marker("ok", 500, 150, FALSE)
    /\ narrative[2].abs.kind = "none"
    /\ elements = <<[description |-> "A", type |-> "unknown",
                     priority |-> "medium",
                     relative_coordinates |-> <<500, 150>>,
                     coordinates |-> <<540, 360>>, command |-> Absent]>>

\* C21: a title line with the marker (高优先级), (中优先级) or (低优先级)
\* ("H", "M", "L") gives its element priority high, medium or low, a title
\* line without a marker gives medium, and a priority marker on a line that
\* is not a title line changes no element's priority.
C21_PriorityMapping ==
    epc = "done" =>
        \A k \in 1..Len(elements) :
            LET p == narrative[NthTitle(k)].priority IN
            elements[k].priority =
                IF p = "H" THEN "high" ELSE IF p = "L" THEN "low" ELSE "medium"

\* Two elements were returned: one whose title line says (低优先级) with
\* priority low, and one whose title line has no marker and whose block has
\* a (低优先级) on a later line, with priority medium.
C21_Witness ==
    /\ epc = "done"
    /\ Len(narrative) = 3
    /\ narrative[1].priority = "L" /\ IsTitleLine(narrative[1])
    /\ narrative[2].priority = "" /\ IsTitleLine(narrative[2])
    /\ narrative[3].priority = "L" /\ ~IsTitleLine(narrative[3])
    /\ Len(elements) = 2
    /\ elements[1].priority = "low"
    /\ elements[2].priority = "medium"

\* C24 as stated, for a screenInfo with width, height > 0: every line that
\* carries a command marker with text after it and lies inside an element
\* block sets that element's suggested command to that text, the last such
\* line of the block winning, also when the line carries a title or a
\* coordinate marker; a command marker before the first title line is
\* ignored.
C24_CommandMarkerAlwaysRead ==
    (epc = "done" /\ parse_info.width > 0 /\ parse_info.height > 0) =>
        /\ \A k \in 1..Len(elements) :
             LET cmds == {i \in BlockOf(k) : narrative[i].cmd.kind = "ok"} IN
             cmds # {} =>
                 elements[k].command = <<narrative[LastOf(cmds)].cmd.text>>
        /\ TitleIndexes = {} => elements = <<>>

\* How often a step occurs in the trace, and where it occurs first.
Count(step) == Cardinality({i \in 1..Len(trace) : trace[i] = step})
First(step) == CHOOSE i \in 1..Len(trace) : trace[i] = step

\* C23: in an orchestrated invocation the device action is issued once and
\* never again (not at all only when main or app_start refused the command
\* line before any device command); the wait starts only after the action
\* returned successfully; the observation starts only after the action
\* returned successfully and, when a wait was asked for, after the wait, and
\* runs at most once; the result is reported last, after the observation
\* when there is one; no action is pending while the wait or the observation
\* runs.
C23_StrictSequencing ==
    cargs.cmd \in Orchestrated =>
        /\ Count("action") <= 1
        /\ Count("wait") <= 1
        /\ Count("observe") <= 1
        /\ Count("print") <= 1
        /\ (/\ cpc \in {"wait", "observe", "print", "done"}
            /\ Rejection(cargs) = NoExit
            /\ result.returncode # 2) => Count("action") = 1
        /\ Took("wait") =>
              /\ Took("action") /\ First("action") < First("wait")
              /\ result.ok
        /\ Took("observe") =>
              /\ Took("action") /\ First("action") < First("observe")
              /\ result.ok
              /\ cargs.wait > 0 =>
                    Took("wait") /\ First("wait") < First("observe")
        /\ Took("print") =>
              /\ trace[Len(trace)] = "print"
              /\ cpc = "done"
              /\ (cargs.auto_view /\ result.ok) =>
                    Took("observe") /\ First("observe") < First("print")
        /\ cpc \in {"wait", "observe"} =>
              /\ result.state = "returned"
              /\ Took("action")
              /\ trace[Len(trace)] # "observe"

\* A relative tap with a wait went through all four steps in order.
C23_Witness ==
    /\ cpc = "done"
    /\ cargs.cmd = "tap"
    /\ cargs.wait > 0
    /\ trace = <<"resolve", "action", "wait", "observe", "print">>

\* clamp(v, 0, 999)
Clamp999(v) == Max(0, Min(999, v))

\* C25 as stated, for the invocations in which the resolver was asked: each
\* pixel pair sent for a tap or swipe lies inside [0, width-1] x
\* [0, height-1] of the screen_info the resolver returned for it, whatever
\* the caller supplied, and in relative mode it equals
\* validate(relativeToAbsolute(clamp(x, 0, 999), clamp(y, 0, 999))).
C25_SentPairsInsideScreen ==
    cargs.available =>
        \A i \in 1..Len(sent) :
            LET si == screen_infos[i]
                p == cargs.points[i]
                a == convert_relative_to_absolute(Clamp999(p[1]),
                         Clamp999(p[2]), si.width, si.height)
                v == validate_coordinates(a[1], a[2], si.width, si.height)
            IN  /\ 0 <= sent[i][1] /\ sent[i][1] <= si.width - 1
                /\ 0 <= sent[i][2] /\ sent[i][2] <= si.height - 1
                /\ cargs.relative => sent[i] = <<v[1], v[2]>>

(***************************************************************************)
(* Properties of the describe step, under SpecDescribe.                    *)
(***************************************************************************)
\* C22 as stated: whenever the vision response has no usable
\* choices[0].message.content (field missing, response malformed, content
\* null) or the HTTP call fails or times out, the describe invocation ends
\* with a failure status and has printed neither a description nor elements;
\* and whatever the geometry resolver answered, its default included, the
\* invocation goes on to the describe call.
C22_MissingDescriptionFailsDescribe ==
    /\ (vpc = "done" /\ response \notin {"unset", "content_str"}) =>
          /\ view_exit \notin {NoExit, 0}
          /\ printed.description = "none"
          /\ printed.elements = <<>>
    /\ (vpc \in {"describe", "output", "done"} /\ response = "unset"
        /\ vargs.cmd = "describe" /\ vargs.with_coords
        /\ view_info # NoInfo) =>
          (vpc = "describe" /\ view_exit = NoExit)

=============================================================================
